---- MODULE Spec2Model ----
(***************************************************************************)
(* Model of is-valid-bst/gen-test.py: the generator of labelled fixtures   *)
(* for a BST validity checker.  Records are generated with unique keys,    *)
(* inserted into a binary search tree in a shuffled order, optionally      *)
(* corrupted by one payload swap, serialized level by level and written    *)
(* to tests/test<N>/input.txt and output.txt.                              *)
(*                                                                         *)
(* Text is modelled as a sequence of one-character strings, so that        *)
(* str(emp), " ".join and the file writes are computed character by        *)
(* character.  The random source is modelled by nondeterministic choice    *)
(* over the outcomes random.Random can produce.                            *)
(***************************************************************************)
EXTENDS Integers, Sequences, FiniteSets, TLC

VARIABLES
    pc,          \* position in generate_testcase
    is_valid,    \* generate_testcase argument
    test_index,  \* generate_testcase argument
    emp_range,   \* generate_testcase argument, <<lo, hi>>
    num_emps,    \* generate_testcase local
    used_keys,   \* generate_testcase local, shared by the generate_employee calls
    employees,   \* generate_testcase local
    draws,       \* the rng draws consumed by the current generate_employee call
    heap,        \* the Node objects, in allocation order
    root,        \* generate_testcase local: index into heap, or NONE
    lines,       \* generate_testcase local
    files,       \* test index -> [input, output], the two files of tests/test<N>
    main_pc,     \* position in main
    main_i,      \* loop variable i of main
    idx,         \* local idx of main
    num_valid,   \* configuration NUM_VALID
    num_invalid, \* configuration NUM_INVALID
    calls        \* the generate_testcase calls main has made, in order

vars == <<pc, is_valid, test_index, emp_range, num_emps, used_keys, employees,
          draws, heap, root, lines, files, main_pc, main_i, idx, num_valid,
          num_invalid, calls>>

caseVars == <<pc, is_valid, test_index, emp_range, num_emps, used_keys,
              employees, draws, heap, root, lines, files>>

mainVars == <<main_pc, main_i, idx, num_valid, num_invalid, calls>>

(***************************************************************************)
(* Bounds of the model.                                                    *)
(***************************************************************************)
\* largest employee count a fixture of the detailed model requests
MaxEmps == 3
\* rejected candidates recorded in draws per generate_employee call; later
\* rejections leave the record as it is
MaxRejects == 1
\* NUM_VALID and NUM_INVALID range over 0..MaxCount
MaxCount == 2

(***************************************************************************)
(* Text.                                                                   *)
(***************************************************************************)
\* the characters the program writes, in code point order
ASCII ==
    <<"\n", " ", ",", "0", "1", "2", "3", "4", "5", "6", "7", "8", "9",
      "A", "B", "C", "D", "E", "F", "G", "H", "I", "J", "K", "L", "M",
      "N", "O", "P", "Q", "R", "S", "T", "U", "V", "W", "X", "Y", "Z",
      "a", "b", "c", "d", "e", "f", "g", "h", "i", "j", "k", "l", "m",
      "n", "o", "p", "q", "r", "s", "t", "u", "v", "w", "x", "y", "z">>

Ord(c) == CHOOSE i \in 1..Len(ASCII) : ASCII[i] = c

\* Python's < on str: lexicographic by code point, a proper prefix is smaller
RECURSIVE StrLess(_, _)
StrLess(a, b) ==
    IF b = <<>> THEN FALSE
    ELSE IF a = <<>> THEN TRUE
    ELSE IF Head(a) = Head(b) THEN StrLess(Tail(a), Tail(b))
    ELSE Ord(Head(a)) < Ord(Head(b))

Digits == <<"0", "1", "2", "3", "4", "5", "6", "7", "8", "9">>

\* str(n) of a non-negative int, as the f-string formats it
RECURSIVE IntToStr(_)
IntToStr(n) ==
    IF n < 10 THEN <<Digits[n + 1]>>
    ELSE IntToStr(n \div 10) \o <<Digits[(n % 10) + 1]>>

\* sep.join(parts)
RECURSIVE Join(_, _)
Join(parts, sep) ==
    IF parts = <<>> THEN <<>>
    ELSE IF Len(parts) = 1 THEN parts[1]
    ELSE parts[1] \o sep \o Join(Tail(parts), sep)

(***************************************************************************)
(* Configuration.                                                          *)
(***************************************************************************)
START_INDEX == 9

EMPLOYEE_RANGE == <<20, 30>>

SPECIAL_RANGE == <<200, 300>>

DEPARTMENTS ==
    << <<"H", "R">>,
       <<"F", "i", "n", "a", "n", "c", "e">>,
       <<"E", "n", "g", "i", "n", "e", "e", "r", "i", "n", "g">>,
       <<"M", "a", "r", "k", "e", "t", "i", "n", "g">>,
       <<"S", "a", "l", "e", "s">>,
       <<"I", "T">>,
       <<"M", "a", "n", "a", "g", "e", "m", "e", "n", "t">> >>

JOB_TITLES ==
    << <<"J", "u", "n", "i", "o", "r">>,
       <<"M", "i", "d", "l", "e", "v", "e", "l">>,
       <<"S", "e", "n", "i", "o", "r">>,
       <<"D", "i", "r", "e", "c", "t", "o", "r">>,
       <<"E", "x", "e", "c", "u", "t", "i", "v", "e">>,
       <<"G", "o", "d">> >>

(***************************************************************************)
(* The outcomes of the rng the model explores.  Each set is a subset of    *)
(* what the call can return in the program.                                *)
(***************************************************************************)
\* rng.choice(string.ascii_lowercase)
LetterDraws == {"a"}

\* rng.randint(1, 5), the length of a name
NameLenDraws == {1, 2}

\* rng.choice(DEPARTMENTS)
DepartmentDraws == {DEPARTMENTS[1], DEPARTMENTS[2]}

\* rng.randint(1, 200)
IdDraws == {1, 2}

\* rng.choice(JOB_TITLES)
JobTitleDraws == {JOB_TITLES[1]}

\* rng.randint(1000, 5000)
SalaryDraws == {1000}

\* random_string(rng, length)
random_string(length) == [1..length -> LetterDraws]

(***************************************************************************)
(* Employee and Node.                                                      *)
(***************************************************************************)
Employee(name, department, id_in_department, job_title, salary) ==
    [name |-> name, department |-> department,
     id_in_department |-> id_in_department, job_title |-> job_title,
     salary |-> salary]

\* Employee.key
key(e) == <<e.department, e.id_in_department>>

\* < on the key tuples: first components first, then the second
KeyLess(k1, k2) ==
    \/ StrLess(k1[1], k2[1])
    \/ k1[1] = k2[1] /\ k1[2] < k2[2]

\* Employee.__str__
Str(e) ==
    e.name \o <<",">> \o e.department \o <<",">> \o IntToStr(e.id_in_department)
        \o <<",">> \o e.job_title \o <<",">> \o IntToStr(e.salary)

NONE == 0

Node(e) == [emp |-> e, left |-> NONE, right |-> NONE]

(***************************************************************************)
(* BST helpers.  A tree is a heap of nodes and the index of its root;      *)
(* every operator returns the heap it leaves behind.                       *)
(***************************************************************************)
\* insert_node comparing the ids alone, not the (department, id) keys
RECURSIVE insert_node_IdOnly(_, _, _)
insert_node_IdOnly(h, r, e) ==
    IF r = NONE THEN [heap |-> Append(h, Node(e)), ret |-> Len(h) + 1]
    ELSE IF e.id_in_department < h[r].emp.id_in_department
         THEN LET sub == insert_node_IdOnly(h, h[r].left, e)
              IN  [heap |-> [sub.heap EXCEPT ![r].left = sub.ret], ret |-> r]
         ELSE LET sub == insert_node_IdOnly(h, h[r].right, e)
              IN  [heap |-> [sub.heap EXCEPT ![r].right = sub.ret], ret |-> r]

\* insert_node(root, emp): [heap, ret], ret the node the call returns
RECURSIVE insert_node(_, _, _)
insert_node(h, r, e) ==
    IF r = NONE THEN [heap |-> Append(h, Node(e)), ret |-> Len(h) + 1]
    ELSE IF KeyLess(key(e), key(h[r].emp))
         THEN LET sub == insert_node(h, h[r].left, e)
              IN  [heap |-> [sub.heap EXCEPT ![r].left = sub.ret], ret |-> r]
         ELSE LET sub == insert_node(h, h[r].right, e)
              IN  [heap |-> [sub.heap EXCEPT ![r].right = sub.ret], ret |-> r]

\* the loop of build_valid_bst_from_list over the shuffled list
RECURSIVE InsertAll(_, _, _)
InsertAll(h, r, shuffled) ==
    IF shuffled = <<>> THEN [heap |-> h, ret |-> r]
    ELSE LET one == insert_node(h, r, Head(shuffled))
         IN  InsertAll(one.heap, one.ret, Tail(shuffled))

\* the orders rng.shuffle can leave a list of n elements in
Shuffles(n) == {p \in [1..n -> 1..n] : \A i, j \in 1..n : p[i] = p[j] => i = j}

\* build_valid_bst_from_list(employees, rng), the shuffle being p
build_valid_bst_from_list(emps, p) ==
    InsertAll(<<>>, NONE, [i \in 1..Len(emps) |-> emps[p[i]]])

\* collect_nodes_inorder(root, out): the nodes appended to out
RECURSIVE collect_nodes_inorder(_, _)
collect_nodes_inorder(h, r) ==
    IF r = NONE THEN <<>>
    ELSE collect_nodes_inorder(h, h[r].left) \o <<r>>
             \o collect_nodes_inorder(h, h[r].right)

\* a sample drawn with replacement: the two picks may be the same node
SamplePairs_WithReplacement(nodes) == (1..Len(nodes)) \X (1..Len(nodes))

\* the pairs rng.sample(nodes, 2) can return, as positions in nodes
SamplePairs(nodes) ==
    {ab \in (1..Len(nodes)) \X (1..Len(nodes)) : ab[1] # ab[2]}

\* a swap of the whole nodes, children included, instead of the payloads
SwapEmp_WholeNodes(h, a, b) == [h EXCEPT ![a] = h[b], ![b] = h[a]]

\* a.emp, b.emp = b.emp, a.emp
SwapEmp(h, a, b) == [h EXCEPT ![a].emp = h[b].emp, ![b].emp = h[a].emp]

\* the heaps violate_bst(root, rng) can leave
violate_bst(h, r) ==
    LET nodes == collect_nodes_inorder(h, r)
    IN  IF Len(nodes) >= 2
        THEN {SwapEmp(h, nodes[ab[1]], nodes[ab[2]]) : ab \in SamplePairs(nodes)}
        ELSE {h}

(***************************************************************************)
(* Serialization.                                                          *)
(***************************************************************************)
NULL == <<"n", "u", "l", "l">>

\* the for loop's line_parts
LineParts(h, current_level) ==
    [k \in 1..Len(current_level) |->
        IF current_level[k] = NONE THEN NULL ELSE Str(h[current_level[k]].emp)]

\* a next_level that takes up the children that are present and skips None
RECURSIVE NextLevel_PresentOnly(_, _)
NextLevel_PresentOnly(h, current_level) ==
    IF current_level = <<>> THEN <<>>
    ELSE IF Head(current_level) = NONE THEN NextLevel_PresentOnly(h, Tail(current_level))
    ELSE SelectSeq(<<h[Head(current_level)].left, h[Head(current_level)].right>>,
                   LAMBDA c : c # NONE)
             \o NextLevel_PresentOnly(h, Tail(current_level))

\* the for loop's next_level
RECURSIVE NextLevel(_, _)
NextLevel(h, current_level) ==
    IF current_level = <<>> THEN <<>>
    ELSE IF Head(current_level) = NONE THEN NextLevel(h, Tail(current_level))
    ELSE <<h[Head(current_level)].left, h[Head(current_level)].right>>
             \o NextLevel(h, Tail(current_level))

\* the next level left as the for loop built it, trailing None included
PopTrailingNone_Keep(level) == level

\* while next_level and next_level[-1] is None: next_level.pop()
RECURSIVE PopTrailingNone(_)
PopTrailingNone(level) ==
    IF level # <<>> /\ level[Len(level)] = NONE
    THEN PopTrailingNone(SubSeq(level, 1, Len(level) - 1))
    ELSE level

\* the while loop of serialize_tree
RECURSIVE SerializeLoop(_, _, _)
SerializeLoop(h, current_level, result_lines) ==
    IF current_level = <<>> THEN result_lines
    ELSE LET line_parts == LineParts(h, current_level)
             emitted ==
                 IF \E k \in 1..Len(line_parts) : line_parts[k] # NULL
                 THEN Append(result_lines, Join(line_parts, <<" ">>))
                 ELSE result_lines
         IN  SerializeLoop(h, PopTrailingNone(NextLevel(h, current_level)), emitted)

serialize_tree(h, r) ==
    IF r = NONE THEN <<>> ELSE SerializeLoop(h, <<r>>, <<>>)

(***************************************************************************)
(* generate_employee.  One action is one pass of its while loop; draws     *)
(* lists what the pass takes from the rng, in order.                       *)
(***************************************************************************)
KeySpace == DepartmentDraws \X IdDraws

\* lines 134-136: the draws of one pass, up to the candidate key
IterationDraws(name) ==
    <<"name_len">> \o [i \in 1..Len(name) |-> "name_char"] \o <<"department", "id">>

\* a pass that ends in continue
RejectedDraws(name) == IterationDraws(name)

\* the draws of a returning pass had the key been drawn and committed first
AcceptedDraws_KeyFirst(name) ==
    <<"department", "id", "commit", "name_len">>
        \o [i \in 1..Len(name) |-> "name_char"] \o <<"job_title", "salary">>

\* a pass that ends in return: the key is committed, then lines 141-142
AcceptedDraws(name) == IterationDraws(name) \o <<"commit", "job_title", "salary">>

\* the membership test left out: every candidate key passes
KeyInUsed_Never(k, used) == FALSE

\* the key added to used_keys before the test: every candidate key fails
KeyInUsed_Always(k, used) == k \in used \cup {k}

\* line 138
KeyInUsed(k, used) == k \in used

\* the draws of the call in progress; a call that has returned ends in salary
CallDraws == IF draws # <<>> /\ draws[Len(draws)] = "salary" THEN <<>> ELSE draws

Rejections(d) == Cardinality({i \in 1..Len(d) : d[i] = "department"})

\* one pass drawing candidate key k that is already used
GenRejectKey(k) ==
    /\ pc = "generate"
    /\ Len(employees) < num_emps
    /\ KeyInUsed(k, used_keys)
    /\ \E len \in NameLenDraws : \E name \in random_string(len) :
          draws' = IF Rejections(CallDraws) < MaxRejects
                   THEN CallDraws \o RejectedDraws(name)
                   ELSE CallDraws
    /\ UNCHANGED <<pc, is_valid, test_index, emp_range, num_emps, used_keys,
                   employees, heap, root, lines, files>>
    /\ UNCHANGED mainVars

\* one pass drawing candidate key k that is free: the call returns
GenAcceptKey(k) ==
    /\ pc = "generate"
    /\ Len(employees) < num_emps
    /\ ~KeyInUsed(k, used_keys)
    /\ used_keys' = used_keys \cup {k}
    /\ \E len \in NameLenDraws : \E name \in random_string(len) :
       \E job_title \in JobTitleDraws : \E salary \in SalaryDraws :
          /\ employees' = Append(employees, Employee(name, k[1], k[2], job_title, salary))
          /\ draws' = CallDraws \o AcceptedDraws(name)
    /\ UNCHANGED <<pc, is_valid, test_index, emp_range, num_emps, heap, root,
                   lines, files>>
    /\ UNCHANGED mainVars

GenReject == \E k \in KeySpace : GenRejectKey(k)

GenAccept == \E k \in KeySpace : GenAcceptKey(k)

(***************************************************************************)
(* generate_testcase.                                                      *)
(***************************************************************************)
\* line 153
DrawNumEmps ==
    /\ pc = "start"
    /\ \E n \in emp_range[1]..emp_range[2] : num_emps' = n
    /\ used_keys' = {}
    /\ employees' = <<>>
    /\ pc' = "generate"
    /\ UNCHANGED <<is_valid, test_index, emp_range, draws, heap, root, lines, files>>
    /\ UNCHANGED mainVars

\* line 157
Build ==
    /\ pc = "generate"
    /\ Len(employees) = num_emps
    /\ \E p \in Shuffles(Len(employees)) :
          LET t == build_valid_bst_from_list(employees, p)
          IN  heap' = t.heap /\ root' = t.ret
    /\ pc' = IF is_valid THEN "serialize" ELSE "violate"
    /\ draws' = <<>>
    /\ UNCHANGED <<is_valid, test_index, emp_range, num_emps, used_keys,
                   employees, lines, files>>
    /\ UNCHANGED mainVars

\* lines 158-159
Violate ==
    /\ pc = "violate"
    /\ heap' \in violate_bst(heap, root)
    /\ pc' = "serialize"
    /\ UNCHANGED <<is_valid, test_index, emp_range, num_emps, used_keys,
                   employees, draws, root, lines, files>>
    /\ UNCHANGED mainVars

\* line 161
Serialize ==
    /\ pc = "serialize"
    /\ lines' = serialize_tree(heap, root)
    /\ pc' = "write"
    /\ UNCHANGED <<is_valid, test_index, emp_range, num_emps, used_keys,
                   employees, draws, heap, root, files>>
    /\ UNCHANGED mainVars

\* lines 166-168: every line followed by a newline
RECURSIVE InputText(_)
InputText(ls) ==
    IF ls = <<>> THEN <<>> ELSE Head(ls) \o <<"\n">> \o InputText(Tail(ls))

\* the verdict written without looking at is_valid
OutputText_AlwaysTrue(valid) == <<"t", "r", "u", "e", "\n">>

\* line 171
OutputText(valid) ==
    IF valid THEN <<"t", "r", "u", "e", "\n">> ELSE <<"f", "a", "l", "s", "e", "\n">>

\* lines 163-171
WriteFiles ==
    /\ pc = "write"
    /\ files' = (test_index :> [input |-> InputText(lines),
                                output |-> OutputText(is_valid)]) @@ files
    /\ pc' = "done"
    /\ UNCHANGED <<is_valid, test_index, emp_range, num_emps, used_keys,
                   employees, draws, heap, root, lines>>
    /\ UNCHANGED mainVars

\* the employee-count ranges the detailed model calls generate_testcase with
EmpRanges == {<<0, MaxEmps>>, <<1, 1>>}

NoMain ==
    /\ main_pc = "none"
    /\ main_i = 0
    /\ idx = START_INDEX
    /\ num_valid = 0
    /\ num_invalid = 0
    /\ calls = <<>>

\* a call generate_testcase(is_valid, test_index, rng, emp_range)
Init ==
    /\ pc = "start"
    /\ is_valid \in BOOLEAN
    /\ test_index = START_INDEX
    /\ emp_range \in EmpRanges
    /\ num_emps = 0
    /\ used_keys = {}
    /\ employees = <<>>
    /\ draws = <<>>
    /\ heap = <<>>
    /\ root = NONE
    /\ lines = <<>>
    /\ files = <<>>
    /\ NoMain

Next ==
    \/ DrawNumEmps
    \/ GenReject
    \/ GenAccept
    \/ Build
    \/ Violate
    \/ Serialize
    \/ WriteFiles

Spec == Init /\ [][Next]_vars

(***************************************************************************)
(* generate_employee on its own: one call, from any set of used keys.      *)
(***************************************************************************)
InitGen ==
    /\ pc = "generate"
    /\ is_valid = TRUE
    /\ test_index = START_INDEX
    /\ emp_range = <<1, 1>>
    /\ num_emps = 1
    /\ used_keys \in SUBSET KeySpace
    /\ employees = <<>>
    /\ draws = <<>>
    /\ heap = <<>>
    /\ root = NONE
    /\ lines = <<>>
    /\ files = <<>>
    /\ NoMain

NextGen ==
    \/ GenReject
    \/ GenAccept

SpecGen == InitGen /\ [][NextGen]_vars

\* the rng is fair: while the loop runs, every candidate key keeps being drawn
SpecGenFair ==
    /\ InitGen
    /\ [][NextGen]_vars
    /\ \A k \in KeySpace : WF_vars(GenRejectKey(k) \/ GenAcceptKey(k))

(***************************************************************************)
(* main.  A generate_testcase call is one step here; of input.txt it keeps *)
(* the number of records (the detailed model above gives its text), and    *)
(* of the counts randint can return the two ends of the range.             *)
(***************************************************************************)
\* the special range given to the first fixture of a category, not the last
RangeFor_First(i, count) == IF i = 0 THEN SPECIAL_RANGE ELSE EMPLOYEE_RANGE

\* lines 182-185 and 190-193: the range main passes on iteration i of count
RangeFor(i, count) == IF i = count - 1 THEN SPECIAL_RANGE ELSE EMPLOYEE_RANGE

\* rng.randint(*emp_range)
NumEmpsDraws(range) == {range[1], range[2]}

\* generate_testcase(valid, index, rng, range) as main sees it
CallGenerateTestcase(valid, index, range) ==
    /\ \E n \in NumEmpsDraws(range) :
          files' = (index :> [records |-> n, output |-> OutputText(valid)]) @@ files
    /\ calls' = Append(calls, [is_valid |-> valid, test_index |-> index,
                               emp_range |-> range])

\* lines 181-186, one iteration
MainValidIter ==
    /\ main_pc = "valid"
    /\ main_i < num_valid
    /\ CallGenerateTestcase(TRUE, idx, RangeFor(main_i, num_valid))
    /\ idx' = idx + 1
    /\ main_i' = main_i + 1
    /\ UNCHANGED <<main_pc, num_valid, num_invalid>>
    /\ UNCHANGED <<pc, is_valid, test_index, emp_range, num_emps, used_keys,
                   employees, draws, heap, root, lines>>

\* the valid loop is exhausted
MainValidEnd ==
    /\ main_pc = "valid"
    /\ main_i >= num_valid
    /\ main_pc' = "invalid"
    /\ main_i' = 0
    /\ UNCHANGED <<idx, num_valid, num_invalid, calls>>
    /\ UNCHANGED caseVars

\* lines 189-194, one iteration
MainInvalidIter ==
    /\ main_pc = "invalid"
    /\ main_i < num_invalid
    /\ CallGenerateTestcase(FALSE, idx, RangeFor(main_i, num_invalid))
    /\ idx' = idx + 1
    /\ main_i' = main_i + 1
    /\ UNCHANGED <<main_pc, num_valid, num_invalid>>
    /\ UNCHANGED <<pc, is_valid, test_index, emp_range, num_emps, used_keys,
                   employees, draws, heap, root, lines>>

\* the invalid loop is exhausted; lines 196-198
MainInvalidEnd ==
    /\ main_pc = "invalid"
    /\ main_i >= num_invalid
    /\ main_pc' = "done"
    /\ UNCHANGED <<main_i, idx, num_valid, num_invalid, calls>>
    /\ UNCHANGED caseVars

\* lines 175-178
InitMain ==
    /\ pc = "idle"
    /\ is_valid = TRUE
    /\ test_index = START_INDEX
    /\ emp_range = EMPLOYEE_RANGE
    /\ num_emps = 0
    /\ used_keys = {}
    /\ employees = <<>>
    /\ draws = <<>>
    /\ heap = <<>>
    /\ root = NONE
    /\ lines = <<>>
    /\ files = <<>>
    /\ main_pc = "valid"
    /\ main_i = 0
    /\ idx = START_INDEX
    /\ num_valid \in 0..MaxCount
    /\ num_invalid \in 0..MaxCount
    /\ calls = <<>>

NextMain ==
    \/ MainValidIter
    \/ MainValidEnd
    \/ MainInvalidIter
    \/ MainInvalidEnd

SpecMain == InitMain /\ [][NextMain]_vars

(***************************************************************************)
(* Properties.                                                             *)
(***************************************************************************)
\* the keys of the tree in in-order
InorderKeys(h, r) ==
    LET nodes == collect_nodes_inorder(h, r)
    IN  [i \in 1..Len(nodes) |-> key(h[nodes[i]].emp)]

StrictlyIncreasing(ks) == \A i \in 1..(Len(ks) - 1) : KeyLess(ks[i], ks[i + 1])

\* how often key k occurs in the sequence of keys ks
KeyCount(ks, k) == Cardinality({i \in 1..Len(ks) : ks[i] = k})

SameKeyMultiset(ks1, ks2) == \A k \in KeySpace : KeyCount(ks1, k) = KeyCount(ks2, k)

\* the paths of at most n steps from a root
Paths(n) == UNION {[1..d -> {"L", "R"}] : d \in 0..n}

\* the node a path leads to, NONE when it leaves the tree
RECURSIVE NodeAt(_, _, _)
NodeAt(h, r, path) ==
    IF r = NONE THEN NONE
    ELSE IF path = <<>> THEN r
    ELSE NodeAt(h, IF Head(path) = "L" THEN h[r].left ELSE h[r].right, Tail(path))

ReachingPaths(h, r) == {path \in Paths(Len(h)) : NodeAt(h, r, path) # NONE}

\* the tree has been built and not yet handed to violate_bst
JustBuilt == pc = "violate" \/ (is_valid /\ pc \in {"serialize", "write", "done"})

\* C1: the tree build_valid_bst_from_list returns lists, in in-order, exactly
\* the keys of the input records in strictly increasing key order; it has as
\* many nodes as there are records and no node is reached by two paths.
C1_BuilderYieldsBst ==
    JustBuilt =>
        LET ks == InorderKeys(heap, root)
        IN  /\ StrictlyIncreasing(ks)
            /\ Len(ks) = Len(employees)
            /\ {ks[i] : i \in 1..Len(ks)} = {key(employees[i]) : i \in 1..Len(employees)}
            /\ Len(heap) = Len(employees)
            /\ {NodeAt(heap, root, path) : path \in ReachingPaths(heap, root)}
                   = 1..Len(heap)
            /\ \A p1, p2 \in ReachingPaths(heap, root) :
                   NodeAt(heap, root, p1) = NodeAt(heap, root, p2) => p1 = p2

\* a built tree of MaxEmps records from both departments, whose root has two
\* children and is not the first record of the input list
C1_Witness ==
    /\ JustBuilt
    /\ Len(employees) = MaxEmps
    /\ Len(employees) >= 3
    /\ heap[root].left # NONE
    /\ heap[root].right # NONE
    /\ heap[root].emp # employees[1]
    /\ \E i, j \in 1..Len(employees) : employees[i].department # employees[j].department

\* C2: violate_bst on a built tree of at least 2 nodes leaves the in-order
\* keys not strictly increasing and the multiset of keys as it was.
C2_ViolateBreaksOrder ==
    [][(pc = "violate" /\ Len(collect_nodes_inorder(heap, root)) >= 2)
          => /\ ~StrictlyIncreasing(InorderKeys(heap', root'))
             /\ SameKeyMultiset(InorderKeys(heap', root'), InorderKeys(heap, root))]_vars

\* a corrupted tree of at least 3 nodes whose first and last in-order nodes
\* were the two swapped
C2_Witness ==
    /\ ~is_valid
    /\ pc = "serialize"
    /\ Len(heap) >= 3
    /\ LET ks == InorderKeys(heap, root)
       IN  /\ KeyLess(ks[Len(ks)], ks[1])
           /\ \A i \in 2..(Len(ks) - 1) : KeyLess(ks[Len(ks)], ks[i]) /\ KeyLess(ks[i], ks[1])

\* C6: violate_bst keeps the node set, every node's children and the root;
\* with fewer than 2 nodes it changes nothing, otherwise exactly two distinct
\* nodes exchange their records and every other record stays.
C6_ViolateFrame ==
    [][pc = "violate"
          => /\ root' = root
             /\ Len(heap') = Len(heap)
             /\ \A n \in 1..Len(heap) :
                    heap'[n].left = heap[n].left /\ heap'[n].right = heap[n].right
             /\ Len(heap) < 2 => heap' = heap
             /\ Len(heap) >= 2 =>
                    \E a, b \in 1..Len(heap) :
                        /\ a # b
                        /\ heap'[a].emp = heap[b].emp
                        /\ heap'[b].emp = heap[a].emp
                        /\ heap'[a].emp # heap[a].emp
                        /\ \A n \in 1..Len(heap) \ {a, b} : heap'[n].emp = heap[n].emp]_vars

\* a corrupted tree in which a node with two children holds a record that is
\* out of order with both of them
C6_Witness ==
    /\ ~is_valid
    /\ pc = "serialize"
    /\ \E n \in 1..Len(heap) :
          /\ heap[n].left # NONE
          /\ heap[n].right # NONE
          /\ KeyLess(key(heap[n].emp), key(heap[heap[n].left].emp))

\* s.split(c)
RECURSIVE Split(_, _)
Split(s, c) ==
    LET hits == {i \in 1..Len(s) : s[i] = c}
    IN  IF hits = {} THEN <<s>>
        ELSE LET i == CHOOSE i \in hits : \A j \in hits : i <= j
             IN  <<SubSeq(s, 1, i - 1)>> \o Split(SubSeq(s, i + 1, Len(s)), c)

\* int(ds) of a sequence of decimal digits
RECURSIVE ParseInt(_)
ParseInt(ds) ==
    IF ds = <<>> THEN 0
    ELSE 10 * ParseInt(SubSeq(ds, 1, Len(ds) - 1))
             + (CHOOSE v \in 0..9 : Digits[v + 1] = ds[Len(ds)])

\* the record a token name,department,id,job_title,salary stands for
ParseRecord(token) ==
    LET f == Split(token, ",")
    IN  IF Len(f) = 5
        THEN Employee(f[1], f[2], ParseInt(f[3]), f[4], ParseInt(f[5]))
        ELSE <<"malformed", token>>

\* the child slots, as paths, of the present tokens among the first n slots
RECURSIVE ChildSlotPaths(_, _, _)
ChildSlotPaths(tokens, slots, j) ==
    IF j > Len(tokens) \/ j > Len(slots) THEN <<>>
    ELSE (IF tokens[j] = NULL THEN <<>>
          ELSE <<Append(slots[j], "L"), Append(slots[j], "R")>>)
             \o ChildSlotPaths(tokens, slots, j + 1)

\* the reader of the level-order lines: each present node of a line takes the
\* next two slots of the following line, slots missing at the end are absent
RECURSIVE ReadLevels(_, _)
ReadLevels(ls, slots) ==
    IF ls = <<>> THEN {}
    ELSE LET tokens == Split(Head(ls), " ")
         IN  {<<slots[j], ParseRecord(tokens[j])>> :
                  j \in {i \in 1..Len(tokens) : i <= Len(slots) /\ tokens[i] # NULL}}
                 \cup (IF Len(tokens) > Len(slots) THEN {<<"malformed", Head(ls)>>} ELSE {})
                 \cup ReadLevels(Tail(ls), ChildSlotPaths(tokens, slots, 1))

\* the tree read back from the lines, as the set of <<path, record>>
Deserialize(ls) == ReadLevels(ls, << <<>> >>)

\* the tree as the set of <<path, record>>
TreePairs(h, r) == {<<path, h[NodeAt(h, r, path)].emp>> : path \in ReachingPaths(h, r)}

Serialized == pc \in {"write", "done"}

\* C3: reading the lines serialize_tree emits back, level by level, gives the
\* tree that was serialized: the same shape, the same record at every position.
C3_RoundTrip == Serialized => Deserialize(lines) = TreePairs(heap, root)

\* a corrupted tree of 3 levels serialized with an interior null: the root
\* has no left child, and its right child has a left child only
C3_Witness ==
    /\ pc = "write"
    /\ ~is_valid
    /\ root # NONE
    /\ heap[root].left = NONE
    /\ heap[root].right # NONE
    /\ heap[heap[root].right].left # NONE
    /\ heap[heap[root].right].right = NONE
    /\ Len(lines) = 3

\* the nodes of depth d, left to right
RECURSIVE NodesAtDepth(_, _, _)
NodesAtDepth(h, r, d) ==
    IF r = NONE THEN <<>>
    ELSE IF d = 1 THEN <<r>>
    ELSE NodesAtDepth(h, h[r].left, d - 1) \o NodesAtDepth(h, h[r].right, d - 1)

RECURSIVE Height(_, _)
Height(h, r) ==
    IF r = NONE THEN 0
    ELSE LET l == Height(h, h[r].left)
             g == Height(h, h[r].right)
         IN  1 + (IF l > g THEN l ELSE g)

\* the left and right child slots of the given nodes, in order
RECURSIVE ChildSlots(_, _)
ChildSlots(h, nodes) ==
    IF nodes = <<>> THEN <<>>
    ELSE <<h[Head(nodes)].left, h[Head(nodes)].right>> \o ChildSlots(h, Tail(nodes))

\* the slots up to the last present one
TruncatedSlots(slots) ==
    LET present == {i \in 1..Len(slots) : slots[i] # NONE}
    IN  SubSeq(slots, 1, IF present = {} THEN 0
                         ELSE CHOOSE i \in present : \A j \in present : j <= i)

\* the slots level d of the tree is expected to show
LevelSlots(h, r, d) ==
    IF d = 1 THEN <<r>> ELSE TruncatedSlots(ChildSlots(h, NodesAtDepth(h, r, d - 1)))

\* C4: serialize_tree emits no line for the empty tree and otherwise one line
\* per level: the root, then the child slots of the previous line's present
\* nodes, absent ones as null, cut after the last present node; no line ends
\* in null or holds null only.
C4_OneLinePerLevel ==
    Serialized =>
        IF root = NONE THEN lines = <<>>
        ELSE /\ Len(lines) = Height(heap, root)
             /\ \A d \in 1..Len(lines) :
                    LET tokens == Split(lines[d], " ")
                        slots == LevelSlots(heap, root, d)
                    IN  /\ tokens = [i \in 1..Len(slots) |->
                                        IF slots[i] = NONE THEN NULL
                                        ELSE Str(heap[slots[i]].emp)]
                        /\ tokens[Len(tokens)] # NULL
                        /\ \E i \in 1..Len(tokens) : tokens[i] # NULL

\* a tree serialized to 3 lines whose second and third line both start with
\* an interior null
C4_Witness ==
    /\ pc = "write"
    /\ Len(lines) = 3
    /\ Split(lines[2], " ")[1] = NULL
    /\ Len(Split(lines[2], " ")) = 2
    /\ Split(lines[3], " ")[1] = NULL
    /\ Len(Split(lines[3], " ")) = 2

\* C5: a fixture of exactly 1 record marked invalid is not corrupted: its tree
\* and its input.txt are those of the validly built one-node tree, and its
\* output.txt is false.
C5_SingleRecordInvalid ==
    (pc = "done" /\ ~is_valid /\ num_emps = 1) =>
        LET built == build_valid_bst_from_list(employees, <<1>>)
        IN  /\ heap = built.heap
            /\ root = built.ret
            /\ StrictlyIncreasing(InorderKeys(heap, root))
            /\ files[test_index].input = InputText(serialize_tree(built.heap, built.ret))
            /\ files[test_index].input = Str(employees[1]) \o <<"\n">>
            /\ files[test_index].output = <<"f", "a", "l", "s", "e", "\n">>

\* the fixture of the range (1, 1) marked invalid has been written
C5_Witness ==
    /\ pc = "done"
    /\ ~is_valid
    /\ emp_range = <<1, 1>>
    /\ num_emps = 1
    /\ test_index \in DOMAIN files

EmployeeKeys == {key(employees[i]) : i \in 1..Len(employees)}

\* C7: a generate_employee call that returns yields a record whose key was
\* not in used_keys and adds that key and no other; so the records of a
\* fixture have pairwise distinct keys and used_keys is the set of their keys.
C7_UniqueKeys ==
    /\ [](/\ \A i, j \in 1..Len(employees) :
                 key(employees[i]) = key(employees[j]) => i = j
          /\ used_keys = EmployeeKeys)
    /\ [][Len(employees') = Len(employees) + 1
             => LET e == employees'[Len(employees')]
                IN  /\ key(e) \notin used_keys
                    /\ used_keys' = used_keys \cup {key(e)}
                    /\ SubSeq(employees', 1, Len(employees)) = employees]_vars

\* a third record has been returned after a candidate key was rejected
C7_Witness ==
    /\ pc = "generate"
    /\ Len(employees) = 3
    /\ Rejections(draws) = 2
    /\ draws[Len(draws)] = "salary"

\* the draws d are passes in the order the claim states: department and id
\* per candidate, the name drawn once the key is committed
RECURSIVE KeyFirstOrder(_)
KeyFirstOrder(d) ==
    \/ d = <<>>
    \/ /\ Len(d) >= 2
       /\ d[1] = "department"
       /\ d[2] = "id"
       /\ KeyFirstOrder(SubSeq(d, 3, Len(d)))
    \/ /\ Len(d) >= 5
       /\ d[1] = "commit"
       /\ d[2] = "name_len"
       /\ \A i \in 3..(Len(d) - 2) : d[i] = "name_char"
       /\ d[Len(d) - 1] = "job_title"
       /\ d[Len(d)] = "salary"

\* C8 as stated: candidate keys are drawn until one is free, the key is
\* committed, and only then the name, the job title and the salary are drawn;
\* a rejected candidate consumes the department and id draws only.
C8_KeyDrawnBeforeName ==
    /\ KeyFirstOrder(draws)
    /\ \A i \in 1..Len(draws) :
           draws[i] \in {"name_len", "name_char"}
               => \E j \in 1..(i - 1) : draws[j] = "commit"

\* the draws d are passes in the order of the code: name length, 1 to 5 name
\* characters, department, id; after the last pass commit, job title, salary
RECURSIVE NameFirstOrder(_)
NameFirstOrder(d) ==
    \/ d = <<>>
    \/ /\ Len(d) >= 4
       /\ d[1] = "name_len"
       /\ LET chars == {n \in 1..5 : /\ n + 3 <= Len(d)
                                    /\ \A i \in 2..(n + 1) : d[i] = "name_char"
                                    /\ d[n + 2] = "department"}
          IN  /\ chars # {}
              /\ LET n == CHOOSE n \in chars : TRUE
                     rest == SubSeq(d, n + 4, Len(d))
                 IN  /\ d[n + 3] = "id"
                     /\ \/ rest = <<"commit", "job_title", "salary">>
                        \/ NameFirstOrder(rest)

\* C8 amended: every pass draws the name (length, then characters), then the
\* department, then the id; a rejected pass has consumed all of these; the key
\* is committed after the id of the last pass and before job title and salary.
C8_NameDrawnBeforeKey ==
    /\ NameFirstOrder(draws)
    /\ \A i \in 1..Len(draws) :
           draws[i] = "commit"
               => /\ i > 1
                  /\ draws[i - 1] = "id"
                  /\ \E j \in 1..(i - 1) : draws[j] = "name_len"
                  /\ \A j \in (i + 1)..Len(draws) : draws[j] \in {"job_title", "salary"}

\* a call that rejected a candidate drawn with a one-letter name and returned
\* a record with a two-letter name
C8_Witness ==
    /\ Rejections(draws) = 2
    /\ draws[Len(draws)] = "salary"
    /\ draws[3] = "department"
    /\ Len(employees) >= 2
    /\ Len(employees[Len(employees)].name) = 2

\* C9: with every key used the call never returns and leaves used_keys as it
\* is; with a key free, and every key drawn again and again, it returns.
C9_ReturnsIffKeyFree ==
    /\ [][(pc = "generate" /\ Len(employees) < num_emps /\ used_keys = KeySpace)
             => /\ used_keys' = used_keys
                /\ employees' = employees
                /\ pc' = "generate"]_vars
    /\ [](used_keys = KeySpace /\ employees = <<>> => [](employees = <<>>))
    /\ (Len(employees) < num_emps /\ used_keys # KeySpace)
           ~> (Len(employees) = num_emps)

\* the call is looping over a full key space, a candidate rejected
C9_Witness ==
    /\ pc = "generate"
    /\ used_keys = KeySpace
    /\ employees = <<>>
    /\ Rejections(draws) >= 1

\* what main is expected to pass on its j-th call
ExpectedCall(j) ==
    [is_valid |-> j <= num_valid,
     test_index |-> START_INDEX + j - 1,
     emp_range |-> IF j = num_valid \/ j = num_valid + num_invalid
                   THEN SPECIAL_RANGE ELSE EMPLOYEE_RANGE]

\* C10: main numbers the fixtures START_INDEX, START_INDEX + 1, ... without
\* gap or repeat, writes the NUM_VALID valid ones (true) before the
\* NUM_INVALID invalid ones (false), and gives the special range to the last
\* valid and the last invalid fixture and the default range to the others.
C10_MainOrder ==
    /\ \A j \in 1..Len(calls) : calls[j] = ExpectedCall(j)
    /\ idx = START_INDEX + Len(calls)
    /\ DOMAIN files = {START_INDEX + j - 1 : j \in 1..Len(calls)}
    /\ \A j \in 1..Len(calls) :
           LET f == files[START_INDEX + j - 1]
               range == ExpectedCall(j).emp_range
           IN  /\ f.output = IF j <= num_valid
                             THEN <<"t", "r", "u", "e", "\n">>
                             ELSE <<"f", "a", "l", "s", "e", "\n">>
               /\ f.records \in range[1]..range[2]
    /\ main_pc = "valid" => Len(calls) = main_i
    /\ main_pc = "invalid" => Len(calls) = num_valid + main_i
    /\ main_pc = "done" => Len(calls) = num_valid + num_invalid

\* main has finished a run of at least 2 valid and 2 invalid fixtures
C10_Witness ==
    /\ main_pc = "done"
    /\ num_valid >= 2
    /\ num_invalid >= 2
    /\ Len(calls) = num_valid + num_invalid

====
